---- MODULE Spec2Model ----
(***************************************************************************)
(* Model of lib/model/masks.py: the construction of a Mask object          *)
(* (Mask.__init__), the three build_masks strategies (Facehull, Smart,     *)
(* Dummy) and the shared merge_masks step (specification Spec); and of     *)
(* lib/gui/custom_widgets.py: the widget redirector (SpecRedirector), the  *)
(* read-only console and its clear variable (SpecConsole), the tooltip     *)
(* (SpecTooltip) and the status bar (SpecStatusBar).  Each specification   *)
(* moves the variables of its own component and leaves the others alone.   *)
(*                                                                         *)
(* Arrays are records [shape, data]: shape is the numpy shape tuple and    *)
(* data maps every 0-based index tuple of that shape to a value.  Values   *)
(* are float32 numbers in [0, 1] discretised to hundredths: 0 is 0.0 and   *)
(* One (100) is 1.0.                                                       *)
(***************************************************************************)
EXTENDS Integers, Sequences, FiniteSets, TLC

VARIABLES
    pc,          \* position of the constructor: new, build, fh_next, fh_part,
                 \* merge, done (returned) or failed (an exception left it)
    strategy,    \* the class being constructed: Facehull, Smart or Dummy
    mask_type,   \* the mask_type argument (self.mask_type once assigned)
    channels,    \* the channels argument (self.channels once assigned)
    faces,       \* the faces argument
    landmarks,   \* the landmarks argument
    built,       \* the local array `masks` of build_masks (its return value)
    masks,       \* the attribute self.masks
    error,       \* the exception that left the constructor, or NoError
    i,           \* Facehull.build_masks: index of the landmark set in the loop
    j,           \* Facehull.build_masks: 1-based index of the part being filled
    calls,       \* how often each step has run: build (build_masks entered),
                 \* returned (build_masks returned), merge (merge_masks entered),
                 \* dispatch (build_dict looked up), fetch (GetModel), load
                 \* (load_model), hull (cv2.convexHull statement), fill (a hull
                 \* filled), handler (the except block entered)
    fetched,     \* Smart.build_masks: the (git_model_id, model_filename) fetched
    \* _WidgetRedirector on a Text widget, _ReadOnlyText, ConsoleOut
    text,          \* the characters the Tk text widget holds
    operations,    \* _WidgetRedirector._operations: operation -> function
    attrs,         \* the widget's instance attributes that mask its methods
    lastReg,       \* history: the function of the latest register call of an
                   \* operation not unregistered since
    ret,           \* the value the latest call returned
    last,          \* history: the latest call, its route and the text before it
    consoleclear,  \* the tkinter variable consoleclear
    clearEntries,  \* history: how often _clear was entered by the latest write
    \* Tooltip
    ident,         \* Tooltip._ident: the id of the timer, or None
    topwidget,     \* Tooltip._topwidget: the tooltip window, or None
    timers,        \* the timers Tk holds: scheduled, not yet run or cancelled
    windows,       \* the Toplevel windows that exist
    now,           \* the time, in units of waittime / WaitTicks
    nextId,        \* the number of the next timer or window Tk creates
    lastEvent,     \* history: the latest event handled
    \* StatusBar
    pbar_message,  \* StatusBar._pbar_message
    pbar_position, \* StatusBar._pbar_position
    pbar_mode,     \* the mode option of the progress bar
    pbar_running,  \* whether the indeterminate animation runs (start / stop)
    pbar_packed,   \* whether the progress bar is packed (displayed)
    lastCall,      \* history: the latest StatusBar method called, and the
                   \* mode and display of the bar when it was called
    started        \* history: progress_start was called since the latest
                   \* progress_stop (or construction)

maskVars == <<pc, strategy, mask_type, channels, faces, landmarks, built, masks,
              error, i, j, calls, fetched>>

redirVars == <<text, operations, attrs, lastReg, ret, last, consoleclear, clearEntries>>

tipVars == <<ident, topwidget, timers, windows, now, nextId, lastEvent>>

barVars == <<pbar_message, pbar_position, pbar_mode, pbar_running, pbar_packed,
             lastCall, started>>

guiVars == <<redirVars, tipVars, barVars>>

vars == <<maskVars, guiVars>>

----------------------------------------------------------------------------
(* Bounds of the checked inputs *)

MaxBatch == 2        \* batches hold 0..MaxBatch faces / landmark sets
Height == 2          \* image height in pixels
Width == 3           \* image width in pixels
MaxSeed == 1         \* face images are drawn from MaxSeed + 1 pixel patterns
MaxLayout == 1       \* landmark sets are drawn from MaxLayout + 1 layouts
ShortPoints == 20    \* length of a malformed (too short) landmark set
MaxChannels == 4     \* channels arguments are drawn from 0..MaxChannels

(* Program constants *)

NumLandmarks == 68   \* points of a well-formed landmark set
One == 100           \* the value 1.0 (fill value, np.ones_like), in hundredths
LowDFL == 10         \* 0.1, the lower clamp threshold of the DFL model
HighDFL == 90        \* 0.9, the upper clamp threshold of the DFL model

PyNone == "<None>"   \* Python's None (not the string "none")
NoArray == [shape |-> <<-1>>, data |-> <<>>]   \* no array bound yet
NoError == "<no error>"
NoModel == <<>>

----------------------------------------------------------------------------
(* numpy arrays *)

Min(a, b) == IF a <= b THEN a ELSE b
Max(a, b) == IF a >= b THEN a ELSE b

Front(s) == SubSeq(s, 1, Len(s) - 1)
Last(s) == s[Len(s)]

RECURSIVE Indices(_)
Indices(shape) ==
    IF shape = <<>> THEN {<<>>}
    ELSE {<<k>> \o t : k \in 0..(Head(shape) - 1), t \in Indices(Tail(shape))}

\* np.zeros(shape)
Zeros(shape) == [shape |-> shape, data |-> [ix \in Indices(shape) |-> 0]]

\* np.zeros_like(a) in the place of np.ones_like(a)
ZerosLike(a) == [shape |-> a.shape, data |-> [ix \in Indices(a.shape) |-> 0]]

\* np.ones_like(a)
OnesLike(a) == [shape |-> a.shape, data |-> [ix \in Indices(a.shape) |-> One]]

\* np.array(a, ndmin=n): ones are prepended to the shape up to n dimensions
RECURSIVE NdMin(_, _)
NdMin(a, n) ==
    IF Len(a.shape) >= n THEN a
    ELSE NdMin([shape |-> <<1>> \o a.shape,
                data |-> [ix \in Indices(<<1>> \o a.shape) |-> a.data[Tail(ix)]]],
               n)

\* np.repeat(a, reps, axis=-1): every element of the last axis, reps times in a row
RepeatLast(a, reps) ==
    LET shape == Front(a.shape) \o <<reps * Last(a.shape)>>
    IN  [shape |-> shape,
         data |-> [ix \in Indices(shape) |->
                      a.data[Front(ix) \o <<Last(ix) \div reps>>]]]

\* a[..., :n]
SliceLast(a, n) ==
    LET shape == Front(a.shape) \o <<Min(n, Last(a.shape))>>
    IN  [shape |-> shape, data |-> [ix \in Indices(shape) |-> a.data[ix]]]

\* np.concatenate((a, b), axis=-1) is defined for arrays of the same number of
\* dimensions that agree on every axis but the last
CanConcatLast(a, b) ==
    /\ Len(a.shape) = Len(b.shape)
    /\ Front(a.shape) = Front(b.shape)

ConcatLast(a, b) ==
    LET shape == Front(a.shape) \o <<Last(a.shape) + Last(b.shape)>>
    IN  [shape |-> shape,
         data |-> [ix \in Indices(shape) |->
                      IF Last(ix) < Last(a.shape)
                      THEN a.data[ix]
                      ELSE b.data[Front(ix) \o <<Last(ix) - Last(a.shape)>>]]]

----------------------------------------------------------------------------
(* Inputs: faces, landmarks, mask kinds *)

RECURSIVE IndexCode(_)
IndexCode(ix) == IF ix = <<>> THEN 0 ELSE Head(ix) + 5 * IndexCode(Tail(ix))

\* A faces array of shape (n, Height, Width, 3) (rank 4) or (Height, Width, 3)
\* (rank 3), values in [0, 1]; seed selects the pixel pattern.
MkFaces(rank, n, seed) ==
    LET shape == IF rank = 4 THEN <<n, Height, Width, 3>> ELSE <<Height, Width, 3>>
    IN  [shape |-> shape,
         data |-> [ix \in Indices(shape) |-> (13 * IndexCode(ix) + 29 * seed + 7) % (One + 1)]]

FacesInputs ==
    {MkFaces(4, n, s) : n \in 0..MaxBatch, s \in 0..MaxSeed}
        \cup {MkFaces(3, 1, s) : s \in 0..MaxSeed}

\* A landmarks array of shape (count, npoints, 2) (ndim 3) or (npoints, 2)
\* (ndim 2, no count); ndim 0 stands for landmarks=None.  Point k of set number s lies at
\* Point(layout + s, k).
NoLandmarks == [ndim |-> 0, count |-> 0, npoints |-> 0, layout |-> 0]

PointCounts == {0, ShortPoints, NumLandmarks}

LandmarkInputs ==
    {[ndim |-> 3, count |-> c, npoints |-> n, layout |-> l] :
        c \in 1..MaxBatch, n \in PointCounts, l \in 0..MaxLayout}
    \cup {[ndim |-> 3, count |-> 0, npoints |-> n, layout |-> 0] : n \in PointCounts}
    \cup {[ndim |-> 2, count |-> 0, npoints |-> n, layout |-> l] :
            n \in PointCounts, l \in 0..MaxLayout}
    \cup {NoLandmarks}

Point(lay, k) ==
    [x |-> ((k * Width) \div NumLandmarks + lay) % Width,
     y |-> (k + lay) % Height]

\* get_available_masks()
AvailableMasks ==
    {"components", "dfl_full", "facehull", "none", "vgg_300", "vgg_500", "unet_256"}

MaskTypeInputs == AvailableMasks \cup {PyNone, "bogus"}

Strategies == {"Facehull", "Smart", "Dummy"}

ChannelInputs == 0..MaxChannels

----------------------------------------------------------------------------
(* Facehull: landmark parts *)

\* landmarks[lo:hi] of a landmark set of n points: the indices of its rows
Slice(lo, hi, n) == {k \in lo..(hi - 1) : k < n}

\* A part is what np.concatenate(item) is given: `tuple` tells whether item is
\* a tuple of slices (rows are then stacked into a (k, 2) array of points) or
\* the landmark array itself (its rows, each of shape (2,), are then joined
\* into one flat array of 2n numbers); pts are the rows.
TuplePart(pts) == [tuple |-> TRUE, pts |-> pts]

\* Facehull.one: parts = [(landmarks)], the array itself, not a tuple
one(n) == << [tuple |-> FALSE, pts |-> Slice(0, n, n)] >>

\* Facehull.three
three(n) ==
    LET nose_ridge == Slice(27, 31, n) \cup Slice(33, 34, n)
        jaw == Slice(0, 17, n) \cup Slice(48, 68, n) \cup Slice(0, 1, n)
                 \cup Slice(8, 9, n) \cup Slice(16, 17, n)
        eyes == Slice(17, 27, n) \cup Slice(0, 1, n) \cup Slice(27, 28, n)
                  \cup Slice(16, 17, n) \cup Slice(33, 34, n)
    IN  << TuplePart(jaw), TuplePart(nose_ridge), TuplePart(eyes) >>

\* Facehull.eight
eight(n) ==
    LET r_jaw == Slice(0, 9, n) \cup Slice(17, 18, n)
        l_jaw == Slice(8, 17, n) \cup Slice(26, 27, n)
        r_cheek == Slice(17, 20, n) \cup Slice(8, 9, n)
        l_cheek == Slice(24, 27, n) \cup Slice(8, 9, n)
        nose_ridge == Slice(19, 25, n) \cup Slice(8, 9, n)
        r_eye == Slice(17, 22, n) \cup Slice(27, 28, n) \cup Slice(31, 36, n)
                   \cup Slice(8, 9, n)
        l_eye == Slice(22, 27, n) \cup Slice(27, 28, n) \cup Slice(31, 36, n)
                   \cup Slice(8, 9, n)
        nose == Slice(27, 31, n) \cup Slice(31, 36, n)
    IN  << TuplePart(r_jaw), TuplePart(l_jaw), TuplePart(r_cheek), TuplePart(l_cheek),
           TuplePart(nose_ridge), TuplePart(r_eye), TuplePart(l_eye), TuplePart(nose) >>

\* build_dict of Facehull.build_masks
FacehullBuildDict ==
    [k \in {"facehull", "dfl_full", "components", PyNone} |->
        CASE k = "facehull" -> "one"
          [] k = "dfl_full" -> "three"
          [] k = "components" -> "eight"
          [] OTHER -> "three"]

\* build_dict[mask_type](landmark) for a landmark set of n points
Parts(mt, n) ==
    CASE FacehullBuildDict[mt] = "one" -> one(n)
      [] FacehullBuildDict[mt] = "three" -> three(n)
      [] OTHER -> eight(n)

----------------------------------------------------------------------------
(* Facehull: cv2.convexHull and cv2.fillConvexPoly *)

Cross(a, b, c) == (b.x - a.x) * (c.y - a.y) - (b.y - a.y) * (c.x - a.x)

OnSegment(p, a, b) ==
    /\ Cross(a, b, p) = 0
    /\ Min(a.x, b.x) <= p.x /\ p.x <= Max(a.x, b.x)
    /\ Min(a.y, b.y) <= p.y /\ p.y <= Max(a.y, b.y)

InTriangle(p, a, b, c) ==
    LET d1 == Cross(a, b, p)
        d2 == Cross(b, c, p)
        d3 == Cross(c, a, p)
    IN  /\ Cross(a, b, c) # 0
        /\ ~ ((d1 < 0 \/ d2 < 0 \/ d3 < 0) /\ (d1 > 0 \/ d2 > 0 \/ d3 > 0))

\* whether pixel p lies in the convex hull of the points ps
InHull(p, ps) ==
    \/ \E a, b \in ps : OnSegment(p, a, b)
    \/ \E a, b, c \in ps : InTriangle(p, a, b, c)

\* What cv2.convexHull(np.concatenate(item)) does with a part:
\*   "ok"          a hull is returned (a non-empty (k, 2) array of integer
\*                 points);
\*   "hull_raises" the statement raises (np.concatenate of no rows, or a flat
\*                 array, which is no array of 2-D points);
\*   "hull_empty"  no hull comes back for an empty (0, 2) array and
\*                 cv2.fillConvexPoly then raises on it.
\* For an empty (0, 2) array the outcome depends on the cv2 build.
HullOutcomes(part) ==
    IF ~ part.tuple THEN {"hull_raises"}
    ELSE IF part.pts = {} THEN {"hull_raises", "hull_empty"}
    ELSE {"ok"}

\* a fill that writes the hull into every image of the batch
FillEveryImage(a, idx, lay, pts) ==
    LET ps == {Point(lay, k) : k \in pts}
    IN  [a EXCEPT !.data =
            [ix \in DOMAIN a.data |->
                IF InHull([x |-> ix[3], y |-> ix[2]], ps) THEN One ELSE a.data[ix]]]

\* cv2.fillConvexPoly(masks[idx], hull, 1.) for the hull of landmark points pts
\* of layout lay: every pixel of image idx inside the hull is set to 1
FillConvexPoly(a, idx, lay, pts) ==
    LET ps == {Point(lay, k) : k \in pts}
    IN  [a EXCEPT !.data =
            [ix \in DOMAIN a.data |->
                IF ix[1] = idx /\ InHull([x |-> ix[3], y |-> ix[2]], ps)
                THEN One ELSE a.data[ix]]]

----------------------------------------------------------------------------
(* Smart: model table and clamp *)

\* the table with the entry of vgg_500 copied to unet_256
SmartBuildDictCopied ==
    [k \in {"vgg_300", "vgg_500", "unet_256", PyNone} |->
        CASE k = "vgg_300" -> <<8, "Nirkin_300_softmax_v1.h5">>
          [] OTHER -> <<5, "Nirkin_500_softmax_v1.h5">>]

\* build_dict of Smart.build_masks
SmartBuildDict ==
    [k \in {"vgg_300", "vgg_500", "unet_256", PyNone} |->
        CASE k = "vgg_300" -> <<8, "Nirkin_300_softmax_v1.h5">>
          [] k = "vgg_500" -> <<5, "Nirkin_500_softmax_v1.h5">>
          [] k = "unet_256" -> <<6, "DFL_256_sigmoid_v1.h5">>
          [] OTHER -> <<5, "Nirkin_500_softmax_v1.h5">>]

\* low = masks < 0.1; high = masks > 0.9; masks[low] = 0.; masks[high] = 1.
ClampDFL(v) == IF v < LowDFL THEN 0 ELSE IF v > HighDFL THEN One ELSE v

----------------------------------------------------------------------------
(* lib/gui/custom_widgets.py: values of the widget redirector *)

\* the longest text the console holds, and the deepest nesting of write traces
\* that is followed
MaxText == 2
MaxTraceDepth == 3

Chars == {"a", "b"}

\* the widget operations that are redirected or passed on: insert and delete
\* change the text, see scrolls to an index
Ops == {"insert", "delete", "see"}

\* the functions a caller registers: the lambda of _ReadOnlyText that returns
\* "break", a function that returns its own result, one that raises TclError
Funcs == {"lambda_break", "f1", "raise_TclError"}

NoFunc == "<no function>"
NoAttr == "<class method>"
OriginalCommand == "_OriginalCommand"

\* the arguments of a widget command; the index "bad" is one Tk does not parse
ArgsOf(op) ==
    CASE op = "insert" -> {<<ix, c>> : ix \in {"1.0", "end"}, c \in Chars} \cup {<<"bad", "a">>}
      [] op = "delete" -> {<<"1.0", "end">>, <<"end-2c">>, <<"bad">>}
      [] OTHER -> {<<"end">>, <<"bad">>}

\* values a call returns
RetStr(s) == [type |-> "str", val |-> s]
RetNone == [type |-> "None", val |-> <<>>]
RetFunc(f) == [type |-> "function", val |-> <<f>>]
RetOrig(op) == [type |-> "_OriginalCommand", val |-> <<op>>]
RetRaised(e) == [type |-> "raised", val |-> <<e>>]

\* the original Tk text command: widget_orig operation args
TkCall(txt, op, args) ==
    IF args[1] = "bad" THEN [text |-> txt, ret |-> RetRaised("TclError"), err |-> TRUE]
    ELSE [text |-> CASE op = "insert" /\ args[1] = "end" -> Append(txt, args[2])
                     [] op = "insert" /\ args[1] = "1.0" -> <<args[2]>> \o txt
                     [] op = "delete" /\ Len(args) = 2   -> <<>>
                     [] op = "delete" /\ Len(args) = 1 /\ txt # <<>> -> Front(txt)
                     [] OTHER -> txt,
          ret |-> RetStr(<<>>), err |-> FALSE]

\* a registered function called with the arguments
Apply(fn, args) ==
    CASE fn = "lambda_break"   -> [ret |-> RetStr(<<"break">>), err |-> FALSE]
      [] fn = "raise_TclError" -> [ret |-> RetRaised("TclError"), err |-> TRUE]
      [] OTHER                 -> [ret |-> RetStr(<<fn>>), err |-> FALSE]

NoOperations == [op \in Ops |-> NoFunc]
NoAttrs == [op \in Ops |-> NoAttr]

\* _WidgetRedirector.register with a function that is stored and set as the
\* widget attribute, and a variant that stores nothing
registerNothing(ops, at, op, function) ==
    [operations |-> ops, attrs |-> at, ret |-> RetOrig(op)]

register(ops, at, op, function) ==
    [operations |-> [ops EXCEPT ![op] = function],
     attrs      |-> [at EXCEPT ![op] = function],
     ret        |-> RetOrig(op)]

\* _WidgetRedirector.unregister
unregister(ops, at, op) ==
    IF ops[op] # NoFunc
    THEN [operations |-> [ops EXCEPT ![op] = NoFunc],
          attrs      |-> [at EXCEPT ![op] = NoAttr],
          ret        |-> RetFunc(ops[op])]
    ELSE [operations |-> ops, attrs |-> at, ret |-> RetNone]

\* _WidgetRedirector.dispatch: the Tcl command of the widget
dispatch(ops, txt, op, args) ==
    LET op_ == ops[op]
    IN  IF op_ # NoFunc
        THEN LET r == Apply(op_, args)
             IN  [text |-> txt, ret |-> IF r.err THEN RetStr(<<>>) ELSE r.ret,
                  route |-> "function", fn |-> op_]
        ELSE LET r == TkCall(txt, op, args)
             IN  [text |-> r.text, ret |-> IF r.err THEN RetStr(<<>>) ELSE r.ret,
                  route |-> "tk", fn |-> NoFunc]

\* _OriginalCommand.__call__
OriginalCommandCall(txt, op, args) ==
    LET r == TkCall(txt, op, args)
    IN  [text |-> r.text, ret |-> r.ret, route |-> "orig", fn |-> NoFunc]

\* widget.<op>(*args) in Python: the instance attribute if there is one, else
\* the method of tk.Text, which calls the Tcl command of the widget
WidgetCall(ops, at, txt, op, args) ==
    CASE at[op] = OriginalCommand -> OriginalCommandCall(txt, op, args)
      [] at[op] = NoAttr          -> dispatch(ops, txt, op, args)
      [] OTHER -> LET r == Apply(at[op], args)
                  IN  [text |-> txt, ret |-> r.ret, route |-> "attribute", fn |-> at[op]]

\* _ReadOnlyText.__init__ with insert and delete left as the registered
\* functions, and as the code has it: they are the returned original commands
ReadOnlyTextMasked ==
    LET r1 == register(NoOperations, NoAttrs, "insert", "lambda_break")
        r2 == register(r1.operations, r1.attrs, "delete", "lambda_break")
    IN  [operations |-> r2.operations, attrs |-> r2.attrs]

ReadOnlyText ==
    LET r1 == register(NoOperations, NoAttrs, "insert", "lambda_break")
        a1 == [r1.attrs EXCEPT !["insert"] = OriginalCommand]
        r2 == register(r1.operations, a1, "delete", "lambda_break")
        a2 == [r2.attrs EXCEPT !["delete"] = OriginalCommand]
    IN  [operations |-> r2.operations, attrs |-> a2]

\* the value ConsoleOut._clear writes back to consoleclear, and its opposite
ResetValueTrue == TRUE
ResetValue == FALSE

\* ConsoleOut._clear, run by the write trace of consoleclear; nested tells
\* whether Tk runs the trace again for the write _clear itself makes
RECURSIVE clear(_, _, _, _, _, _)
clear(cc, ops, at, txt, nested, depth) ==
    IF depth > MaxTraceDepth
    THEN [text |-> txt, consoleclear |-> cc, entries |-> 0]
    ELSE IF ~ cc
    THEN [text |-> txt, consoleclear |-> cc, entries |-> 1]
    ELSE LET d == WidgetCall(ops, at, txt, "delete", <<"1.0", "end">>)
             inner == IF nested
                      THEN clear(ResetValue, ops, at, d.text, nested, depth + 1)
                      ELSE [text |-> d.text, consoleclear |-> ResetValue, entries |-> 0]
         IN  [inner EXCEPT !.entries = @ + 1]

\* the record of a call: prev is the function a register call replaced
NoLast == [kind |-> "init", op |-> "", args |-> <<>>, route |-> "", fn |-> NoFunc,
           prev |-> NoFunc, before |-> <<>>]

----------------------------------------------------------------------------
(* lib/gui/custom_widgets.py: values of the tooltip and of the status bar *)

\* time is counted in milliseconds, in steps of TickMs, up to MaxTime; Tk
\* hands out at most MaxIds timer and window ids
TickMs == 200
MaxTime == 1000
MaxIds == 4

\* Tooltip.__init__: waittime=400
WaitTime == 400

\* the positions progress_update is called with are 0..MaxPosition
MaxPosition == 5

\* StatusBar._progress_bar: maximum=100
Maximum == 100

NoId == 0

\* a timer of widget.after: at is the time it was scheduled, by the event
\* that scheduled it; left tells that a Leave or ButtonPress came after it
NoTimer == [id |-> NoId, due |-> 0, at |-> 0, by |-> "", left |-> FALSE]

\* Tooltip._unschedule on the timers Tk holds: after_cancel(id_) when id_ is
\* set; and a variant that cancels nothing
UnscheduledNothing(tm, id) == tm

Unscheduled(tm, id) == {t \in tm : t.id # id}

Messages == {"", "Training", "Converting"}
Modes == {"determinate", "indeterminate"}

\* a call of a StatusBar method, with the state of the bar it was made in
Called(name, mode, running, packed) ==
    [name |-> name, mode |-> mode, running |-> running, packed |-> packed]

\* StatusBar._progress_set_mode, and a variant that starts the animation in
\* either mode
progress_set_mode_start(mode, running, position, resets) ==
    [mode |-> mode, running |-> TRUE, position |-> position]

\* pbar.start() runs the autoincrement and pbar.stop() ends it; resets tells
\* whether the stop of this Tk also sets the value of the bar back to 0
progress_set_mode(mode, running, position, resets) ==
    IF mode = "indeterminate"
    THEN [mode |-> mode, running |-> TRUE, position |-> position]
    ELSE [mode |-> mode, running |-> FALSE,
          position |-> IF resets THEN 0 ELSE position]

----------------------------------------------------------------------------
(* State machine *)

NoCalls ==
    [build |-> 0, returned |-> 0, merge |-> 0, dispatch |-> 0, fetch |-> 0,
     load |-> 0, hull |-> 0, fill |-> 0, handler |-> 0]

Bump(c, what) == [c EXCEPT ![what] = @ + 1]

MaskInit ==
    /\ pc = "new"
    /\ strategy = PyNone
    /\ mask_type = PyNone
    /\ channels = 0
    /\ faces = NoArray
    /\ landmarks = NoLandmarks
    /\ built = NoArray
    /\ masks = NoArray
    /\ error = NoError
    /\ i = 0
    /\ j = 0
    /\ calls = NoCalls
    /\ fetched = NoModel

\* a fresh _WidgetRedirector on a Text widget: _WidgetRedirector.__init__
RedirectorInit ==
    /\ text = <<>>
    /\ operations = NoOperations
    /\ attrs = NoAttrs
    /\ lastReg = NoOperations
    /\ ret = RetNone
    /\ last = NoLast
    /\ consoleclear = FALSE
    /\ clearEntries = 0

\* ConsoleOut.__init__: the console is a _ReadOnlyText, consoleclear is False
ConsoleInit ==
    /\ text = <<>>
    /\ operations = ReadOnlyText.operations
    /\ attrs = ReadOnlyText.attrs
    /\ lastReg = ReadOnlyText.operations
    /\ ret = RetNone
    /\ last = NoLast
    /\ consoleclear = FALSE
    /\ clearEntries = 0

\* Tooltip.__init__
TooltipInit ==
    /\ ident = NoId
    /\ topwidget = NoId
    /\ timers = {}
    /\ windows = {}
    /\ now = 0
    /\ nextId = 1
    /\ lastEvent = [kind |-> "init", timer |-> NoTimer, hid |-> NoId,
                    inside |-> FALSE, paired |-> TRUE]

\* StatusBar.__init__ and _progress_bar: the bar is packed and then forgotten
StatusBarInit ==
    /\ pbar_message = ""
    /\ pbar_position = 0
    /\ pbar_mode = "determinate"
    /\ pbar_running = FALSE
    /\ pbar_packed = FALSE
    /\ lastCall = Called("init", "determinate", FALSE, FALSE)
    /\ started = FALSE

Init == MaskInit /\ ConsoleInit /\ TooltipInit /\ StatusBarInit

\* a range check in the place of the membership test
ValidChannelsRange(ch) == 1 <= ch /\ ch <= 4

\* assert channels in (1, 3, 4)
ValidChannels(ch) == ch \in {1, 3, 4}

\* the exception e leaves the constructor
Raise(e) ==
    /\ pc' = "failed"
    /\ error' = e

\* Mask.__init__ up to the call of build_masks.  Smart and Dummy never read
\* landmarks and are constructed with the default landmarks=None.
Construct(s, mt, f, lm, ch) ==
    /\ pc = "new"
    /\ strategy' = s
    /\ mask_type' = mt
    /\ channels' = ch
    /\ faces' = f
    /\ landmarks' = lm
    /\ IF ValidChannels(ch)
       THEN /\ pc' = "build"
            /\ error' = error
       ELSE Raise("AssertionError")
    /\ UNCHANGED <<built, masks, i, j, calls, fetched>>
    /\ UNCHANGED guiVars

\* if landmarks.ndim == 2: landmarks = landmarks[None, ...], and the number of
\* landmark sets the loop then enumerates: a (npoints, 2) array becomes the one
\* set of a (1, npoints, 2) array
LandmarkSets(lm) == IF lm.ndim = 2 THEN 1 ELSE lm.count

\* Facehull.build_masks up to the loop over the landmark sets
FacehullBuildMasks ==
    /\ pc = "build"
    /\ strategy = "Facehull"
    /\ built' = NdMin(Zeros(Front(faces.shape) \o <<1>>), 4)
    /\ calls' = Bump(calls, "build")
    /\ IF landmarks.ndim = 0
       THEN Raise("AttributeError")      \* None has no attribute ndim
       ELSE /\ pc' = "fh_next"
            /\ error' = error
    /\ i' = 0
    /\ j' = 0
    /\ UNCHANGED <<strategy, mask_type, channels, faces, landmarks, masks, fetched>>
    /\ UNCHANGED guiVars

\* for i, landmark in enumerate(landmarks): parts = build_dict[mask_type](landmark),
\* or the end of the loop and the return of masks
FacehullNextLandmark ==
    /\ pc = "fh_next"
    /\ IF i >= LandmarkSets(landmarks)
       THEN /\ pc' = "merge"
            /\ calls' = Bump(calls, "returned")
            /\ UNCHANGED <<error, j>>
       ELSE /\ calls' = Bump(calls, "dispatch")
            /\ IF mask_type \in DOMAIN FacehullBuildDict
               THEN /\ pc' = "fh_part"
                    /\ j' = 1
                    /\ error' = error
               ELSE /\ Raise("KeyError")
                    /\ j' = j
    /\ UNCHANGED <<strategy, mask_type, channels, faces, landmarks, built, masks,
                   i, fetched>>
    /\ UNCHANGED guiVars

\* One pass of `for item in parts`: the hull of the part, the fill in the try
\* block and the except handler.  The handler reads error.message, which no
\* Python 3 exception has, so the handler itself raises AttributeError.
FacehullFillPart ==
    /\ pc = "fh_part"
    /\ LET parts == Parts(mask_type, landmarks.npoints)
           part == parts[j]
       IN  \E o \in HullOutcomes(part) :
              IF o = "hull_raises"
              THEN /\ Raise(IF part.tuple \/ part.pts # {} THEN "cv2.error" ELSE "ValueError")
                   /\ calls' = Bump(calls, "hull")
                   /\ UNCHANGED <<built, i, j>>
              ELSE IF o = "ok" /\ i < built.shape[1]
              THEN /\ built' = FillConvexPoly(built, i, landmarks.layout + i, part.pts)
                   /\ calls' = Bump(Bump(calls, "hull"), "fill")
                   /\ error' = error
                   /\ IF j < Len(parts)
                      THEN /\ j' = j + 1
                           /\ UNCHANGED <<pc, i>>
                      ELSE /\ pc' = "fh_next"
                           /\ i' = i + 1
                           /\ j' = 0
              ELSE /\ Raise("AttributeError")
                   /\ calls' = Bump(Bump(calls, "hull"), "handler")
                   /\ UNCHANGED <<built, i, j>>
    /\ UNCHANGED <<strategy, mask_type, channels, faces, landmarks, masks, fetched>>
    /\ UNCHANGED guiVars

\* Smart.build_masks.  fetchOk and loadOk tell whether GetModel and
\* keras.models.load_model succeed.  np.array has no keyword ndim, so the
\* statement after the load raises TypeError and the code below it never runs.
SmartBuildMasks(fetchOk, loadOk) ==
    /\ pc = "build"
    /\ strategy = "Smart"
    /\ IF mask_type \notin DOMAIN SmartBuildDict
       THEN /\ Raise("KeyError")
            /\ calls' = Bump(Bump(calls, "build"), "dispatch")
            /\ UNCHANGED fetched
       ELSE /\ fetched' = SmartBuildDict[mask_type]
            /\ IF ~ fetchOk
               THEN /\ Raise("GetModelError")
                    /\ calls' = Bump(Bump(Bump(calls, "build"), "dispatch"), "fetch")
               ELSE /\ calls' = Bump(Bump(Bump(Bump(calls, "build"), "dispatch"),
                                          "fetch"), "load")
                    /\ Raise(IF loadOk THEN "TypeError" ELSE "LoadModelError")
    /\ UNCHANGED <<strategy, mask_type, channels, faces, landmarks, built, masks, i, j>>
    /\ UNCHANGED guiVars

\* Dummy.build_masks
DummyBuildMasks ==
    /\ pc = "build"
    /\ strategy = "Dummy"
    /\ built' = OnesLike(faces)
    /\ calls' = Bump(Bump(calls, "build"), "returned")
    /\ pc' = "merge"
    /\ UNCHANGED <<strategy, mask_type, channels, faces, landmarks, masks, error,
                   i, j, fetched>>
    /\ UNCHANGED guiVars

\* whether merge_masks(faces, m) returns for ch channels
CanMerge(ch, f, m) == ch = 4 => CanConcatLast(SliceLast(f, 3), m)

\* Mask.merge_masks
merge_masks(ch, f, m) ==
    IF ch = 3 THEN RepeatLast(m, 3)
    ELSE IF ch = 4 THEN ConcatLast(SliceLast(f, 3), m)
    ELSE m

\* self.masks = self.merge_masks(faces, masks)
MergeMasks ==
    /\ pc = "merge"
    /\ calls' = Bump(calls, "merge")
    /\ IF CanMerge(channels, faces, built)
       THEN /\ masks' = merge_masks(channels, faces, built)
            /\ pc' = "done"
            /\ error' = error
       ELSE /\ Raise("ValueError")
            /\ UNCHANGED masks
    /\ UNCHANGED <<strategy, mask_type, channels, faces, landmarks, built, i, j, fetched>>
    /\ UNCHANGED guiVars

\* A new Mask object is constructed from some inputs
NewMask ==
    /\ pc = "new"
    /\ \E s \in Strategies, mt \in MaskTypeInputs, f \in FacesInputs, ch \in ChannelInputs :
          \E lm \in (IF s = "Facehull" THEN LandmarkInputs ELSE {NoLandmarks}) :
             Construct(s, mt, f, lm, ch)

Next ==
    \/ NewMask
    \/ FacehullBuildMasks
    \/ FacehullNextLandmark
    \/ FacehullFillPart
    \/ \E fetchOk, loadOk \in BOOLEAN : SmartBuildMasks(fetchOk, loadOk)
    \/ DummyBuildMasks
    \/ MergeMasks

Spec == Init /\ [][Next]_vars

----------------------------------------------------------------------------
(* State machine of the widget redirector: lib/gui/custom_widgets.py *)

\* Tk keeps any text; the model follows it up to MaxText characters
Fits(op) == op = "insert" => Len(text) < MaxText

\* redirector.register(op, f)
Register(op, f) ==
    LET r == register(operations, attrs, op, f)
    IN  /\ operations' = r.operations
        /\ attrs' = r.attrs
        /\ ret' = r.ret
        /\ lastReg' = [lastReg EXCEPT ![op] = f]
        /\ last' = [NoLast EXCEPT !.kind = "register", !.op = op, !.fn = f,
                                  !.prev = lastReg[op], !.before = text]
        /\ UNCHANGED <<text, consoleclear, clearEntries>>
        /\ UNCHANGED <<maskVars, tipVars, barVars>>

\* redirector.unregister(op)
Unregister(op) ==
    LET r == unregister(operations, attrs, op)
    IN  /\ operations' = r.operations
        /\ attrs' = r.attrs
        /\ ret' = r.ret
        /\ lastReg' = [lastReg EXCEPT ![op] = NoFunc]
        /\ last' = [NoLast EXCEPT !.kind = "unregister", !.op = op,
                                  !.prev = lastReg[op], !.before = text]
        /\ UNCHANGED <<text, consoleclear, clearEntries>>
        /\ UNCHANGED <<maskVars, tipVars, barVars>>

\* Tk runs the widget command: a key, a paste, a cut, a binding of the user
Dispatch(op, args) ==
    /\ Fits(op)
    /\ LET r == dispatch(operations, text, op, args)
       IN  /\ text' = r.text
           /\ ret' = r.ret
           /\ last' = [kind |-> "dispatch", op |-> op, args |-> args, route |-> r.route,
                       fn |-> r.fn,
                       prev |-> IF last.kind = "register" /\ last.op = op
                                THEN last.prev ELSE NoFunc,
                       before |-> text]
    /\ UNCHANGED <<operations, attrs, lastReg, consoleclear, clearEntries>>
    /\ UNCHANGED <<maskVars, tipVars, barVars>>

\* the program calls widget.<op>(*args)
CallAttribute(op, args) ==
    /\ Fits(op)
    /\ LET r == WidgetCall(operations, attrs, text, op, args)
       IN  /\ text' = r.text
           /\ ret' = r.ret
           /\ last' = [NoLast EXCEPT !.kind = "call", !.op = op, !.args = args,
                                     !.route = r.route, !.fn = r.fn, !.before = text]
    /\ UNCHANGED <<operations, attrs, lastReg, consoleclear, clearEntries>>
    /\ UNCHANGED <<maskVars, tipVars, barVars>>

InitRedirector == MaskInit /\ RedirectorInit /\ TooltipInit /\ StatusBarInit

NextRedirector ==
    \/ \E op \in Ops, f \in Funcs : Register(op, f)
    \/ \E op \in Ops : Unregister(op)
    \/ \E op \in Ops : \E args \in ArgsOf(op) : Dispatch(op, args)
    \/ \E op \in Ops : \E args \in ArgsOf(op) : CallAttribute(op, args)

SpecRedirector == InitRedirector /\ [][NextRedirector]_vars

----------------------------------------------------------------------------
(* State machine of the console: ConsoleOut, _ReadOnlyText, _SysOutRouter *)

\* _SysOutRouter.write(string): console.insert(END, string, tag); see(END)
SysOutWrite(c) ==
    /\ Fits("insert")
    /\ LET r1 == WidgetCall(operations, attrs, text, "insert", <<"end", c>>)
           r2 == WidgetCall(operations, attrs, r1.text, "see", <<"end">>)
       IN  /\ text' = r2.text
           /\ last' = [NoLast EXCEPT !.kind = "stdout", !.op = "insert",
                                     !.args = <<"end", c>>, !.route = r1.route,
                                     !.fn = r1.fn, !.before = text]
    /\ ret' = RetNone
    /\ UNCHANGED <<operations, attrs, lastReg, consoleclear, clearEntries>>
    /\ UNCHANGED <<maskVars, tipVars, barVars>>

\* consoleclear.set(v): the write trace set in _set_console_clear_var_trace
\* runs _clear
WriteConsoleClear(v, nested) ==
    /\ LET r == clear(v, operations, attrs, text, nested, 1)
       IN  /\ text' = r.text
           /\ consoleclear' = r.consoleclear
           /\ clearEntries' = r.entries
    /\ ret' = RetNone
    /\ last' = [NoLast EXCEPT !.kind = "write",
                              !.args = <<IF v THEN "True" ELSE "False">>,
                              !.route = IF nested THEN "nested" ELSE "single",
                              !.before = text]
    /\ UNCHANGED <<operations, attrs, lastReg>>
    /\ UNCHANGED <<maskVars, tipVars, barVars>>

NextConsole ==
    \/ \E op \in Ops : \E args \in ArgsOf(op) : Dispatch(op, args)
    \/ \E op \in Ops : \E args \in ArgsOf(op) : CallAttribute(op, args)
    \/ \E c \in Chars : SysOutWrite(c)
    \/ \E v, nested \in BOOLEAN : WriteConsoleClear(v, nested)

SpecConsole == Init /\ [][NextConsole]_vars

----------------------------------------------------------------------------
(* Notions the properties share *)

Terminal == pc \in {"done", "failed"}

NumChannels(a) == Last(a.shape)

\* channel c of array a, as an array whose last axis has length 1: a[..., c:c+1]
Channel(a, c) ==
    LET shape == Front(a.shape) \o <<1>>
    IN  [shape |-> shape,
         data |-> [ix \in Indices(shape) |-> a.data[Front(ix) \o <<c>>]]]

\* all elements of array a equal v
AllEqual(a, v) == \A ix \in DOMAIN a.data : a.data[ix] = v

\* the strategy's lookup of mask_type has happened and raised nothing
DispatchPassed ==
    \/ strategy \in {"Facehull", "Smart"} /\ calls.dispatch > 0 /\ error # "KeyError"
    \/ strategy = "Dummy" /\ calls.build > 0

\* strategy s takes mask kind k: its build_masks does not reject k
Accepts(s, k) ==
    CASE s = "Facehull" -> k \in DOMAIN FacehullBuildDict
      [] s = "Smart" -> k \in DOMAIN SmartBuildDict
      [] OTHER -> TRUE

----------------------------------------------------------------------------
(* C1 *)

\* The part of C1 about channels outside {1, 3, 4}: the constructor fails with
\* the assertion error and nothing of any strategy has run.
C1_Rejected ==
    (pc # "new" /\ channels \notin {1, 3, 4}) =>
        /\ pc = "failed"
        /\ error = "AssertionError"
        /\ calls = NoCalls
        /\ built = NoArray
        /\ masks = NoArray
        /\ fetched = NoModel

\* C1 as stated: channels outside {1, 3, 4} raise before build_masks is
\* invoked and nothing of a strategy runs; with channels in {1, 3, 4} the
\* constructor ends with build_masks and merge_masks run exactly once each.
C1_AsStated ==
    /\ C1_Rejected
    /\ (Terminal /\ channels \in {1, 3, 4}) => (calls.build = 1 /\ calls.merge = 1)

\* C1 as amended: channels outside {1, 3, 4} raise before build_masks is
\* invoked and nothing of a strategy runs; with channels in {1, 3, 4} the check
\* passes, build_masks is invoked exactly once, and merge_masks runs exactly
\* once, after build_masks has returned, if and only if build_masks returns
\* (when build_masks raises, merge_masks never runs and no masks are set).
C1_ChannelCheck ==
    /\ C1_Rejected
    /\ (pc # "new" /\ channels \in {1, 3, 4}) => error # "AssertionError"
    /\ calls.merge <= calls.returned
    /\ calls.returned <= calls.build
    /\ calls.build <= 1
    /\ (pc \notin {"new", "build"} /\ channels \in {1, 3, 4}) => calls.build = 1
    /\ (Terminal /\ channels \in {1, 3, 4}) => calls.merge = calls.returned
    /\ masks # NoArray => (pc = "done" /\ calls.merge = 1)

C1_Witness ==
    /\ pc = "failed"
    /\ channels = 2
    /\ error = "AssertionError"
    /\ strategy = "Smart"

----------------------------------------------------------------------------
(* C2 *)

\* C2 as stated: for every strategy and every batch of faces of shape
\* (N, H, W, 3), the masks of a constructed object have shape (N, H, W, channels).
C2_AsStated ==
    (pc = "done" /\ Len(faces.shape) = 4) =>
        masks.shape = Front(faces.shape) \o <<channels>>

----------------------------------------------------------------------------
(* C3 *)

\* C3 as stated: with channels = 4 the result has the face in channels 0-2 and,
\* in channel 3, its last channel, the single-channel mask that channels = 1
\* gives for the same inputs.
C3_AsStated ==
    (pc = "done" /\ channels = 4) =>
        /\ NumChannels(masks) = 4
        /\ \A c \in 0..2 : Channel(masks, c) = Channel(faces, c)
        /\ NumChannels(merge_masks(1, faces, built)) = 1
        /\ Channel(masks, 3) = merge_masks(1, faces, built)

----------------------------------------------------------------------------
(* C4 *)

\* a part of some landmark set whose hull was not computed or not filled
PartFailed == strategy = "Facehull" /\ calls.hull > calls.fill

\* C4 as stated: in Facehull a failure while computing or filling the hull of
\* one landmark part does not abort the construction.
C4_AsStated == PartFailed => pc # "failed"

----------------------------------------------------------------------------
(* C5 *)

\* C5 as stated: a Facehull or Smart construction with a mask_type that is no
\* key of the strategy's dispatch table always fails, yields no masks, and has
\* filled no hull and fetched or loaded no model, whatever the batch.
C5_AsStated ==
    (/\ Terminal
     /\ channels \in {1, 3, 4}
     /\ strategy \in {"Facehull", "Smart"}
     /\ ~ Accepts(strategy, mask_type)) =>
        /\ pc = "failed"
        /\ masks = NoArray
        /\ calls.fill = 0
        /\ calls.fetch = 0
        /\ calls.load = 0

----------------------------------------------------------------------------
(* C6 *)

----------------------------------------------------------------------------
(* C7 *)

\* C7 as stated: a Facehull construction from a single image (H, W, 3) with
\* landmarks (68, 2) whose build_masks returns also gets through merge_masks and yields masks with the
\* requested number of channels, for each channels in {1, 3, 4}.
C7_AsStated ==
    (/\ strategy = "Facehull"
     /\ Len(faces.shape) = 3
     /\ landmarks.ndim = 2
     /\ landmarks.npoints = NumLandmarks
     /\ Terminal
     /\ calls.returned = 1) =>
        (pc = "done" /\ NumChannels(masks) = channels)

----------------------------------------------------------------------------
(* C8 *)

\* C8 as stated: each of the three channels of the channels = 3 result is the
\* single channel of the channels = 1 result for the same inputs.
C8_AsStated ==
    (pc = "done" /\ channels = 3) =>
        /\ NumChannels(masks) = 3
        /\ NumChannels(merge_masks(1, faces, built)) = 1
        /\ \A c \in 0..2 : Channel(masks, c) = merge_masks(1, faces, built)

----------------------------------------------------------------------------
(* C9 *)

\* C9 as stated: a Smart construction with the DFL model (unet_256) whose model
\* was fetched and loaded returns the clamped prediction: no value of the
\* returned mask is strictly between 0 and 0.1 or between 0.9 and 1.
C9_AsStated ==
    (/\ strategy = "Smart"
     /\ mask_type = "unet_256"
     /\ Terminal
     /\ calls.load = 1
     /\ error # "LoadModelError") =>
        /\ calls.returned = 1
        /\ \A ix \in DOMAIN built.data : built.data[ix] = ClampDFL(built.data[ix])

----------------------------------------------------------------------------
(* C10 *)

\* C10 as stated: a kind of get_available_masks() that a strategy has taken is
\* taken by no other of the three strategies, every available kind is taken
\* by some strategy, and a learned kind has one fixed model.
C10_AsStated ==
    /\ (DispatchPassed /\ mask_type \in AvailableMasks) =>
          \A s \in Strategies \ {strategy} : ~ Accepts(s, mask_type)
    /\ \A k \in AvailableMasks : \E s \in Strategies : Accepts(s, k)

\* C10 as amended: every kind of get_available_masks() is a key of at most one
\* of the two dispatch tables: components, dfl_full and facehull of Facehull's
\* only, vgg_300, vgg_500 and unet_256 of Smart's only, and "none" of neither
\* (both tables hold the key None, not the string "none", so Facehull and Smart
\* raise KeyError for it); Dummy has no dispatch and takes every kind; every
\* learned kind fetches one fixed (model id, model filename) pair.
C10_KindTables ==
    /\ (strategy = "Facehull" /\ DispatchPassed /\ mask_type \in AvailableMasks) =>
          mask_type \in {"components", "dfl_full", "facehull"}
    /\ (strategy = "Smart" /\ DispatchPassed /\ mask_type \in AvailableMasks) =>
          /\ mask_type \in {"vgg_300", "vgg_500", "unet_256"}
          /\ mask_type = "vgg_300" => fetched = <<8, "Nirkin_300_softmax_v1.h5">>
          /\ mask_type = "vgg_500" => fetched = <<5, "Nirkin_500_softmax_v1.h5">>
          /\ mask_type = "unet_256" => fetched = <<6, "DFL_256_sigmoid_v1.h5">>
    /\ (strategy \in {"Facehull", "Smart"} /\ mask_type = "none" /\ calls.dispatch > 0) =>
          (pc = "failed" /\ error = "KeyError")
    /\ (strategy = "Dummy" /\ Terminal /\ channels \in {1, 3, 4}) => pc = "done"
    /\ (strategy # "Smart") => fetched = NoModel

C10_Witness ==
    /\ strategy = "Smart"
    /\ mask_type = "unet_256"
    /\ fetched = <<6, "DFL_256_sigmoid_v1.h5">>
    /\ calls.load = 1

----------------------------------------------------------------------------
(* State machine of the tooltip: Tooltip *)

\* <Enter>: _on_enter, _schedule.  lastEvent.inside tells whether the pointer
\* is in the widget, lastEvent.paired whether the events so far came as Tk
\* sends crossing events: an Enter outside, a Leave or ButtonPress inside
Enter ==
    /\ nextId <= MaxIds
    /\ LET t == [id |-> nextId, due |-> now + WaitTime, at |-> now, by |-> "Enter",
                 left |-> FALSE]
       IN  /\ timers' = Unscheduled(timers, ident) \cup {t}
           /\ ident' = t.id
           /\ lastEvent' = [kind |-> "Enter", timer |-> t, hid |-> NoId, inside |-> TRUE,
                            paired |-> lastEvent.paired /\ ~ lastEvent.inside]
    /\ nextId' = nextId + 1
    /\ UNCHANGED <<topwidget, windows, now>>
    /\ UNCHANGED <<maskVars, redirVars, barVars>>

\* <Leave> and <ButtonPress>: _on_leave, _unschedule, _hide
OnLeave(event) ==
    /\ timers' = {[t EXCEPT !.left = TRUE] : t \in Unscheduled(timers, ident)}
    /\ ident' = NoId
    /\ windows' = windows \ {topwidget}
    /\ topwidget' = NoId
    /\ lastEvent' = [kind |-> event, timer |-> NoTimer, hid |-> topwidget,
                     inside |-> (event = "ButtonPress"),
                     paired |-> lastEvent.paired /\ lastEvent.inside]
    /\ UNCHANGED <<now, nextId>>
    /\ UNCHANGED <<maskVars, redirVars, barVars>>

\* a timer of widget.after(waittime, self._show) expires: _show
Show ==
    /\ nextId <= MaxIds
    /\ \E t \in timers :
          /\ now >= t.due
          /\ timers' = timers \ {t}
          /\ lastEvent' = [lastEvent EXCEPT !.kind = "show", !.timer = t, !.hid = NoId]
    /\ topwidget' = nextId
    /\ windows' = windows \cup {nextId}
    /\ nextId' = nextId + 1
    /\ UNCHANGED <<ident, now>>
    /\ UNCHANGED <<maskVars, redirVars, barVars>>

\* time passes
Tick ==
    /\ now + TickMs <= MaxTime
    /\ now' = now + TickMs
    /\ UNCHANGED <<ident, topwidget, timers, windows, nextId, lastEvent>>
    /\ UNCHANGED <<maskVars, redirVars, barVars>>

NextTooltip ==
    \/ Enter
    \/ \E event \in {"Leave", "ButtonPress"} : OnLeave(event)
    \/ Show
    \/ Tick

SpecTooltip == Init /\ [][NextTooltip]_vars

----------------------------------------------------------------------------
(* State machine of the status bar: StatusBar *)

\* StatusBar.progress_start(mode)
ProgressStart(mode, resets) ==
    /\ LET r == progress_set_mode(mode, pbar_running, pbar_position, resets)
       IN  /\ pbar_mode' = r.mode
           /\ pbar_running' = r.running
           /\ pbar_position' = r.position
    /\ pbar_packed' = TRUE
    /\ lastCall' = Called("progress_start", pbar_mode, pbar_running, pbar_packed)
    /\ started' = TRUE
    /\ UNCHANGED pbar_message
    /\ UNCHANGED <<maskVars, redirVars, tipVars>>

\* StatusBar.progress_stop()
ProgressStop(resets) ==
    /\ pbar_message' = ""
    /\ LET r == progress_set_mode("determinate", pbar_running, 0, resets)
       IN  /\ pbar_mode' = r.mode
           /\ pbar_running' = r.running
           /\ pbar_position' = r.position
    /\ pbar_packed' = FALSE
    /\ lastCall' = Called("progress_stop", pbar_mode, pbar_running, pbar_packed)
    /\ started' = FALSE
    /\ UNCHANGED <<maskVars, redirVars, tipVars>>

\* StatusBar.progress_update(message, position, update_position)
ProgressUpdate(message, position, update_position) ==
    /\ pbar_message' = message
    /\ pbar_position' = IF update_position THEN position ELSE pbar_position
    /\ lastCall' = Called("progress_update", pbar_mode, pbar_running, pbar_packed)
    /\ UNCHANGED <<pbar_mode, pbar_running, pbar_packed, started>>
    /\ UNCHANGED <<maskVars, redirVars, tipVars>>

\* the animation of pbar.start() steps the variable of the bar
AutoIncrement ==
    /\ pbar_running
    /\ pbar_position < MaxPosition
    /\ pbar_position' = (pbar_position + 1) % Maximum
    /\ UNCHANGED <<pbar_message, pbar_mode, pbar_running, pbar_packed, lastCall, started>>
    /\ UNCHANGED <<maskVars, redirVars, tipVars>>

NextStatusBar ==
    \/ \E mode \in Modes, resets \in BOOLEAN : ProgressStart(mode, resets)
    \/ \E resets \in BOOLEAN : ProgressStop(resets)
    \/ \E message \in Messages, position \in 0 .. MaxPosition, update_position \in BOOLEAN :
          ProgressUpdate(message, position, update_position)
    \/ AutoIncrement

SpecStatusBar == Init /\ [][NextStatusBar]_vars

----------------------------------------------------------------------------
(* Properties of the console and of the widget redirector *)

Modifying == {"insert", "delete"}

\* C11: the text of a _ReadOnlyText can be written by the program and not by
\* the user.  An insert or delete that arrives through the Tcl command of the
\* widget (dispatch) returns "break" and leaves the text as it was; an insert
\* or delete made through the insert / delete attribute of the widget goes to
\* the original Tk command, which changes the text.
C11_ReadOnly ==
    /\ (last.kind = "dispatch" /\ last.op \in Modifying) =>
            /\ last.route = "function"
            /\ ret = RetStr(<<"break">>)
            /\ text = last.before
    /\ (last.kind = "call" /\ last.op \in Modifying) =>
            /\ last.route = "orig"
            /\ text = TkCall(last.before, last.op, last.args).text
            /\ (last.op = "insert" /\ last.args[1] # "bad") =>
                    Len(text) = Len(last.before) + 1
            /\ (last.op = "delete" /\ last.args[1] # "bad" /\ last.before # <<>>) =>
                    Len(text) < Len(last.before)
    /\ last.kind = "stdout" => text = Append(last.before, last.args[2])

\* the user types into a console that holds program output: nothing changes
C11_Witness ==
    /\ last.kind = "dispatch"
    /\ last.op = "insert"
    /\ last.args[1] = "end"
    /\ ret = RetStr(<<"break">>)
    /\ text # <<>>
    /\ text = last.before
    /\ attrs["insert"] = OriginalCommand

\* C12: every write of True to consoleclear empties the console text and
\* leaves consoleclear False; a write of False leaves the text as it was; the
\* write that _clear itself makes enters _clear at most once more, and that
\* entry returns without clearing again.
C12_Clear ==
    last.kind = "write" =>
        /\ last.args = <<"True">> => text = <<>> /\ consoleclear = FALSE
        /\ last.args = <<"False">> => text = last.before /\ consoleclear = FALSE
        /\ clearEntries >= 1
        /\ clearEntries <= 2
        /\ clearEntries = 2 => last.args = <<"True">> /\ last.route = "nested"

\* True is written while the console holds text, and the nested trace runs
C12_Witness ==
    /\ last.kind = "write"
    /\ last.args = <<"True">>
    /\ last.before # <<>>
    /\ text = <<>>
    /\ clearEntries = 2

\* C16: dispatch(op, args) applies the function registered last for op, when
\* there is one, and passes nothing to Tk; a second registration for op
\* replaces the first in _operations and as the widget attribute; with no
\* function registered the call goes to the original Tcl command; unregister
\* returns the function that was registered, or None.
C16_Dispatch ==
    /\ last.kind = "dispatch" =>
            IF lastReg[last.op] # NoFunc
            THEN /\ last.route = "function"
                 /\ last.fn = lastReg[last.op]
                 /\ text = last.before
                 /\ ret = IF Apply(last.fn, last.args).err THEN RetStr(<<>>)
                          ELSE Apply(last.fn, last.args).ret
            ELSE /\ last.route = "tk"
                 /\ text = TkCall(last.before, last.op, last.args).text
                 /\ ret = RetStr(<<>>)
    /\ last.kind = "register" =>
            /\ operations[last.op] = last.fn
            /\ attrs[last.op] = last.fn
            /\ ret = RetOrig(last.op)
    /\ last.kind = "unregister" =>
            /\ ret = IF last.prev # NoFunc THEN RetFunc(last.prev) ELSE RetNone
            /\ operations[last.op] = NoFunc
            /\ attrs[last.op] = NoAttr

\* a second function was registered for insert, and dispatch applied it
C16_Witness ==
    /\ last.kind = "dispatch"
    /\ last.op = "insert"
    /\ last.prev = "lambda_break"
    /\ last.fn = "f1"
    /\ ret = RetStr(<<"f1">>)
    /\ text # <<>>

----------------------------------------------------------------------------
(* Properties of the tooltip *)

\* a step that creates a tooltip window is the expiry of the timer that the
\* latest Enter scheduled at least waittime earlier, with no Leave or
\* ButtonPress since
CreatedByTimer ==
    (windows' \ windows # {}) =>
        /\ lastEvent'.kind = "show"
        /\ lastEvent'.timer \in timers
        /\ lastEvent'.timer.id = ident
        /\ lastEvent'.timer.by = "Enter"
        /\ ~ lastEvent'.timer.left
        /\ now >= lastEvent'.timer.at + WaitTime

\* right after a Leave or ButtonPress no show timer is pending and there is
\* no tooltip window
NothingAfterLeave ==
    lastEvent.kind \in {"Leave", "ButtonPress"} =>
        /\ ident = NoId
        /\ timers = {}
        /\ topwidget = NoId
        /\ lastEvent.paired => windows = {}

\* C13: a tooltip window is created only by the expiry of a timer that an
\* Enter event scheduled waittime ms earlier with no Leave or ButtonPress in
\* between; immediately after every Leave or ButtonPress there is no pending
\* show timer (_ident is None, the previous timer is cancelled) and no
\* tooltip window (_topwidget is None).
C13_Tooltip == [][CreatedByTimer]_vars /\ []NothingAfterLeave

\* the pointer leaves while the tooltip is shown: the window is destroyed
C13_Witness ==
    /\ lastEvent.kind = "Leave"
    /\ lastEvent.hid # NoId
    /\ lastEvent.paired
    /\ now >= WaitTime

----------------------------------------------------------------------------
(* Properties of the status bar *)

\* C14: after progress_stop, from whatever state it is called in, the message
\* is "", the position is 0, the bar is determinate with its animation
\* stopped, and the bar is not displayed; it is displayed again only after a
\* later progress_start.
C14_Stopped ==
    /\ lastCall.name = "progress_stop" =>
            /\ pbar_message = ""
            /\ pbar_position = 0
            /\ pbar_mode = "determinate"
            /\ ~ pbar_running
            /\ ~ pbar_packed
    /\ pbar_packed => started
    /\ ~ started => ~ pbar_running

\* progress_stop is called on a running indeterminate bar: the state after it
C14_Witness ==
    /\ lastCall.name = "progress_stop"
    /\ lastCall.mode = "indeterminate"
    /\ lastCall.running
    /\ lastCall.packed
    /\ ~ pbar_packed
    /\ ~ pbar_running
    /\ ~ started

----------------------------------------------------------------------------
(* Properties of the Facehull canvas *)

\* Facehull.build_masks is running or has run: built is its canvas
FacehullCanvas == strategy = "Facehull" /\ built # NoArray

\* every pixel of the canvas is 0 or 1
ZeroOrOne == FacehullCanvas => \A ix \in DOMAIN built.data : built.data[ix] \in {0, One}

\* build_masks starts from a canvas of zeros; every later step keeps the
\* shape, keeps every 1, and changes pixels of image i only
CanvasStep ==
    /\ (strategy = "Facehull" /\ pc = "build") =>
            \A ix \in DOMAIN built'.data : built'.data[ix] = 0
    /\ FacehullCanvas =>
            /\ built'.shape = built.shape
            /\ \A ix \in DOMAIN built.data :
                  /\ built.data[ix] = One => built'.data[ix] = One
                  /\ built'.data[ix] # built.data[ix] => ix[1] = i /\ built'.data[ix] = One

\* C15: the Facehull canvas starts all-zero and is only ever written with 1:
\* after every part fill each pixel is 0 or 1, the set of 1-pixels only grows,
\* and processing landmark set i modifies only the mask of face i.
C15_Canvas == []ZeroOrOne /\ [][CanvasStep]_vars

\* the second face of a batch is being filled: both masks hold ones, and
\* zeros are left
C15_Witness ==
    /\ FacehullCanvas
    /\ pc = "fh_part"
    /\ i = 1
    /\ calls.fill >= 3
    /\ \E ix \in DOMAIN built.data : ix[1] = 0 /\ built.data[ix] = One
    /\ \E ix \in DOMAIN built.data : ix[1] = 1 /\ built.data[ix] = One
    /\ \E ix \in DOMAIN built.data : built.data[ix] = 0

====
